---------------------------- MODULE Spec2Model ----------------------------
(***************************************************************************)
(* A model of SumOfSquares.py: the monomial-basis generators, the Basis    *)
(* object with its symmetric-entry partition, the SOSProblem constraint    *)
(* builders and pseudoexpectation operator, and the two relaxation         *)
(* builders.  Monomials are tuples of naturals; a polynomial is the         *)
(* sequence of its terms [m, c] in sympy's order; numbers produced by a     *)
(* division are exact rationals <<numerator, denominator>> as sympy keeps   *)
(* them.                                                                    *)
(***************************************************************************)
EXTENDS Integers, Sequences, FiniteSets, TLC

VARIABLES gen,      \* the generator being consumed: basis_hom / basis_inhom
          basis,    \* the Basis object under test
          ret,      \* outcome of the last call on the Basis object
          prob,     \* one SOSProblem instance
          call,     \* outcome of the last call on the SOSProblem instance
          relax,    \* outcome of the last relaxation-builder call
          other     \* a second SOSProblem instance

vars == <<gen, basis, ret, prob, call, relax, other>>

-----------------------------------------------------------------------------
(* Bounds of the model *)

MaxN == 3            \* generators are called with n in 0..MaxN
MaxD == 3            \* generators are called with d in 0..MaxD
RecursionLimit == 6  \* depth at which the interpreter raises RecursionError

-----------------------------------------------------------------------------
(* The state before anything is called *)

GenIdle == [fn |-> "none", n |-> 0, d |-> 0, out |-> <<>>, status |-> "idle"]
BasisNone == [monoms |-> <<>>, deg |-> 0, nvars |-> 0, is_hom |-> FALSE,
              entries |-> <<>>, built |-> FALSE]
RetNone == [op |-> "none", poly |-> <<>>, out |-> "none", Qp |-> <<>>,
            sym |-> <<>>]
HandleNone == [made |-> FALSE, basis |-> BasisNone, X |-> 0, deg |-> 0,
               hom |-> FALSE]
ProbNone == [made |-> FALSE, sym_var_map |-> <<>>, created |-> <<>>,
             constraints |-> <<>>, sos_const_count |-> 0, aux_var_count |-> 0,
             pexpect_count |-> 0, pexpect |-> HandleNone]
CallNone == [op |-> "none", poly |-> <<>>, param |-> "", out |-> "none",
             expr |-> <<>>, first |-> 0, var |-> 0, basis |-> BasisNone]
RelaxNone == [op |-> "none", obj |-> 0, eqs |-> <<>>, ineqs |-> <<>>,
              ineq_prods |-> FALSE, deg |-> 0, out |-> "none", terms |-> <<>>,
              sos |-> <<>>]

Init ==
    /\ gen = GenIdle
    /\ basis = BasisNone
    /\ ret = RetNone
    /\ prob = ProbNone
    /\ call = CallNone
    /\ relax = RelaxNone
    /\ other = ProbNone

-----------------------------------------------------------------------------
(* Helpers on tuples *)

RECURSIVE SumSeq(_)
SumSeq(t) == IF t = <<>> THEN 0 ELSE t[1] + SumSeq(Tail(t))

\* (0,)*n ; the empty tuple when n <= 0
Zeros(n) == IF n <= 0 THEN <<>> ELSE [k \in 1..n |-> 0]

\* b[:-1]
DropLast(b) == IF Len(b) = 0 THEN <<>> ELSE SubSeq(b, 1, Len(b) - 1)

RECURSIVE Binom(_, _)
Binom(a, b) ==
    IF b = 0 THEN 1
    ELSE IF a <= 0 THEN 0
    ELSE Binom(a - 1, b - 1) + Binom(a - 1, b)

-----------------------------------------------------------------------------
(* basis.py: basis_hom, basis_inhom.  A generator run is the tuples it     *)
(* yields, in order, and whether it ended by raising RecursionError; depth *)
(* is the number of nested generator frames.                               *)

RECURSIVE basis_hom_gen(_, _, _)
RECURSIVE basis_hom_loop(_, _, _, _)

\* faulty variant: range(d) instead of range(d+1), the last block is never emitted
basis_hom_loop_short(n, d, di, depth) ==
    IF di >= d THEN [out |-> <<>>, err |-> FALSE]
    ELSE LET sub == basis_hom_gen(n - 1, di, depth + 1)
             ext == [k \in 1..Len(sub.out) |-> Append(sub.out[k], d - di)]
         IN  IF sub.err THEN [out |-> ext, err |-> TRUE]
             ELSE LET rest == basis_hom_loop(n, d, di + 1, depth)
                  IN  [out |-> ext \o rest.out, err |-> rest.err]

\* for di in range(d+1): for b in basis_hom(n-1, di): yield b + (d-di,)
basis_hom_loop(n, d, di, depth) ==
    IF di > d THEN [out |-> <<>>, err |-> FALSE]
    ELSE LET sub == basis_hom_gen(n - 1, di, depth + 1)
             ext == [k \in 1..Len(sub.out) |-> Append(sub.out[k], d - di)]
         IN  IF sub.err THEN [out |-> ext, err |-> TRUE]
             ELSE LET rest == basis_hom_loop(n, d, di + 1, depth)
                  IN  [out |-> ext \o rest.out, err |-> rest.err]

basis_hom_gen(n, d, depth) ==
    IF depth > RecursionLimit THEN [out |-> <<>>, err |-> TRUE]
    ELSE IF n = 1 THEN [out |-> << <<d>> >>, err |-> FALSE]
    ELSE IF d = 0 THEN [out |-> << Zeros(n) >>, err |-> FALSE]
    ELSE basis_hom_loop(n, d, 0, depth)

basis_hom(n, d) == basis_hom_gen(n, d, 1)

basis_inhom(n, d) ==
    LET h == basis_hom(n + 1, d)
    IN  [out |-> [k \in 1..Len(h.out) |-> DropLast(h.out[k])], err |-> h.err]

GenRun(fn, n, d) == IF fn = "basis_hom" THEN basis_hom(n, d) ELSE basis_inhom(n, d)

-----------------------------------------------------------------------------
(* The consumer of a generator: list(basis_hom(n, d)).                     *)

GenCall(fn, n, d) ==
    /\ gen.status # "running"
    /\ gen' = [fn |-> fn, n |-> n, d |-> d, out |-> <<>>, status |-> "running"]
    /\ UNCHANGED <<basis, ret, prob, call, relax, other>>

\* next(): the next tuple, StopIteration, or RecursionError
GenNext ==
    /\ gen.status = "running"
    /\ LET run == GenRun(gen.fn, gen.n, gen.d)
           k   == Len(gen.out)
       IN  \/ /\ k < Len(run.out)
              /\ gen' = [gen EXCEPT !.out = Append(@, run.out[k + 1])]
           \/ /\ k = Len(run.out)
              /\ run.err
              /\ gen' = [gen EXCEPT !.status = "RecursionError"]
           \/ /\ k = Len(run.out)
              /\ ~run.err
              /\ gen' = [gen EXCEPT !.status = "done"]
    /\ UNCHANGED <<basis, ret, prob, call, relax, other>>


NextGen ==
    \/ \E fn \in {"basis_hom", "basis_inhom"}, n \in 0..MaxN, d \in 0..MaxD :
          GenCall(fn, n, d)
    \/ GenNext

SpecGen == Init /\ [][NextGen]_vars

-----------------------------------------------------------------------------
(* Bounds of the Basis model *)

\* the polynomial variables, in lexicographic order
Symbols == <<"x", "y">>

MaxDeg == 2          \* Basis.from_degree is called with deg in 0..MaxDeg
MaxDropped == 1      \* monomials a filtered (sparse) basis may lack
MaxPolyDeg == 3      \* polynomials have total degree at most MaxPolyDeg

\* coefficients of the polynomials handed to a Basis: a polynomial has one
\* or two terms, the k-th in sympy's order with a coefficient of CoeffsAt[k]
CoeffsAt == << {-2}, {3} >>

-----------------------------------------------------------------------------
(* Exact rational numbers <<numerator, denominator>>, denominator > 0 *)

Abs(x) == IF x < 0 THEN -x ELSE x

RECURSIVE Gcd(_, _)
Gcd(a, b) == IF b = 0 THEN a ELSE Gcd(b, a % b)

RatNorm(r) ==
    LET g == Gcd(Abs(r[1]), r[2])
    IN  IF g = 0 THEN <<0, 1>> ELSE <<r[1] \div g, r[2] \div g>>

RatAdd(x, y) == RatNorm(<<x[1] * y[2] + y[1] * x[2], x[2] * y[2]>>)

\* coeff/len(entries)
RatDiv(c, k) == RatNorm(<<c, k>>)

-----------------------------------------------------------------------------
(* Polynomials: poly.monoms() and poly.coeffs() zipped, in sympy's order   *)
(* (lexicographic, greatest monomial first)                                *)

Monomials(nv, deg) == {m \in [1..nv -> 0..deg] : SumSeq(m) <= deg}

LexGreater(a, b) ==
    \E k \in 1..Len(a) :
        /\ a[k] > b[k]
        /\ \A j \in 1..(k - 1) : a[j] = b[j]

Polys(nv, deg) ==
    UNION {{p \in [1..k -> [m : Monomials(nv, deg), c : {1, -2, 3}]] :
               /\ \A i \in 1..k : p[i].c \in CoeffsAt[i]
               /\ \A i \in 1..(k - 1) : LexGreater(p[i].m, p[i + 1].m)} :
           k \in 1..Len(CoeffsAt)}

PolyMonoms(p) == {p[k].m : k \in 1..Len(p)}

\* the coefficient of m in p, 0 when m is not a monomial of p
PolyCoeff(p, m) ==
    IF m \in PolyMonoms(p)
    THEN (CHOOSE t \in {p[k] : k \in 1..Len(p)} : t.m = m).c
    ELSE 0

RECURSIVE MaxOf(_)
MaxOf(S) ==
    LET x == CHOOSE y \in S : TRUE
    IN  IF S = {x} THEN x
        ELSE LET r == MaxOf(S \ {x}) IN IF x > r THEN x ELSE r

total_degree(p) == MaxOf({SumSeq(m) : m \in PolyMonoms(p)})

is_hom(p, deg) == \A m \in PolyMonoms(p) : SumSeq(m) = deg

sum_tuple(a, b) == [k \in 1..(IF Len(a) < Len(b) THEN Len(a) ELSE Len(b)) |-> a[k] + b[k]]

-----------------------------------------------------------------------------
(* basis.py: class Basis.  sos_sym_entries is the dict in insertion order: *)
(* a sequence of [key, pairs]; index pairs (i, j) count from 0.            *)

\* the index of key m in the dict, 0 when it has no such key
KeyIndex(ents, m) ==
    IF \E k \in 1..Len(ents) : ents[k].key = m
    THEN CHOOSE k \in 1..Len(ents) : ents[k].key = m
    ELSE 0

Keys(ents) == {ents[k].key : k \in 1..Len(ents)}

\* faulty variant: the inner loop starts at i, only the upper triangle is scanned
ScanOrderUpper(n) ==
    LET all == [k \in 1..(n * n) |-> <<(k - 1) \div n, (k - 1) % n>>]
    IN  SelectSeq(all, LAMBDA pr : pr[1] <= pr[2])

\* for i, bi in enumerate(self): for j, bj in enumerate(self): (i, j)
ScanOrder(n) == [k \in 1..(n * n) |-> <<(k - 1) \div n, (k - 1) % n>>]

\* self.sos_sym_entries[sum_tuple(bi, bj)].append((i, j)) over the scan:
\* the keys in the order of their first pair, each with its pairs in scan order
ScanPairs(monoms, order) ==
    LET keyOf(pr) == sum_tuple(monoms[pr[1] + 1], monoms[pr[2] + 1])
        first == SelectSeq([k \in 1..Len(order) |-> k],
                     LAMBDA k : \A j \in 1..(k - 1) : keyOf(order[j]) # keyOf(order[k]))
    IN  [q \in 1..Len(first) |->
            [key   |-> keyOf(order[first[q]]),
             pairs |-> SelectSeq(order,
                           LAMBDA pr : keyOf(pr) = keyOf(order[first[q]]))]]

\* Basis.__init__ on a nonempty list of monomials
NewBasis(monoms) ==
    LET deg == MaxOf({SumSeq(monoms[k]) : k \in 1..Len(monoms)})
    IN  [monoms  |-> monoms,
         deg     |-> deg,
         nvars   |-> Len(monoms[1]),
         is_hom  |-> \A k \in 1..Len(monoms) : SumSeq(monoms[k]) = deg,
         entries |-> ScanPairs(monoms, ScanOrder(Len(monoms))),
         built   |-> TRUE]

\* Basis.from_degree: the generator run it wraps in a list
from_degree_run(nvars, deg, hom) ==
    IF hom THEN basis_hom(nvars, deg) ELSE basis_inhom(nvars, deg)

\* Basis.check_can_represent: "ok" or the error it raises
check_can_represent(B, p) ==
    IF total_degree(p) > B.deg * 2 THEN "ValueError: degree"
    ELSE IF B.is_hom /\ ~is_hom(p, B.deg * 2) THEN "ValueError: homogeneous"
    ELSE IF PolyMonoms(p) \ Keys(B.entries) # {} THEN "ValueError: monomials"
    ELSE "ok"

\* Basis.sos_sym_poly_repr: the matrix Qp and the dict after the lookups
\* (the dict is a defaultdict: looking up a missing key inserts it)
RECURSIVE ReprLoop(_, _, _, _)
ReprLoop(p, k, ents, Qp) ==
    IF k > Len(p) THEN [Qp |-> Qp, entries |-> ents]
    ELSE LET idx   == KeyIndex(ents, p[k].m)
             ents2 == IF idx = 0
                      THEN Append(ents, [key |-> p[k].m, pairs |-> <<>>])
                      ELSE ents
             pairs == IF idx = 0 THEN <<>> ELSE ents[idx].pairs
             hit   == {pairs[q] : q \in 1..Len(pairs)}
         IN  ReprLoop(p, k + 1, ents2,
                 [pr \in DOMAIN Qp |->
                     IF pr \in hit THEN RatDiv(p[k].c, Len(pairs)) ELSE Qp[pr]])

sos_sym_poly_repr(B, p) ==
    LET n == Len(B.monoms)
    IN  ReprLoop(p, 1, B.entries, [pr \in (0..(n - 1)) \X (0..(n - 1)) |-> <<0, 1>>])

\* Basis.to_sym: the symbolic monomials, each a tuple of <<symbol, power>>
to_sym(B, syms) ==
    [k \in 1..Len(B.monoms) |->
        [i \in 1..B.nvars |-> <<syms[i], B.monoms[k][i]>>]]

-----------------------------------------------------------------------------
(* One Basis object and the calls made on it.  The object is constructed  *)
(* once; the calls that take a polynomial are all made with the same one. *)

\* Basis.from_degree(nvars, deg, hom)
BasisFromDegree(nvars, deg, hom) ==
    LET run == from_degree_run(nvars, deg, hom)
    IN  /\ ret.op = "none"
        /\ IF run.err
           THEN /\ basis' = BasisNone
                /\ ret' = [RetNone EXCEPT !.op = "from_degree",
                                          !.out = "RecursionError"]
           ELSE /\ basis' = NewBasis(run.out)
                /\ ret' = [RetNone EXCEPT !.op = "from_degree", !.out = "ok"]
        /\ UNCHANGED <<gen, prob, call, relax, other>>

\* Basis(list(filter(in_hull, full_basis.monoms))): the full basis without
\* the monomials at the positions in drop
BasisFiltered(nvars, deg, hom, drop) ==
    LET run  == from_degree_run(nvars, deg, hom)
        kept == SelectSeq([k \in 1..Len(run.out) |-> <<k, run.out[k]>>],
                          LAMBDA e : e[1] \notin drop)
    IN  /\ ret.op = "none"
        /\ ~run.err
        /\ drop # {}
        /\ Cardinality(drop) <= MaxDropped
        /\ Cardinality(drop) < Len(run.out)
        /\ basis' = NewBasis([k \in 1..Len(kept) |-> kept[k][2]])
        /\ ret' = [RetNone EXCEPT !.op = "filtered", !.out = "ok"]
        /\ UNCHANGED <<gen, prob, call, relax, other>>

\* the polynomials a call may be made with
CallPolys ==
    IF ret.poly = <<>> THEN Polys(basis.nvars, MaxPolyDeg) ELSE {ret.poly}

CheckCanRepresent(p) ==
    /\ basis.built
    /\ ret' = [RetNone EXCEPT !.op = "check_can_represent", !.poly = p,
                              !.out = check_can_represent(basis, p)]
    /\ UNCHANGED <<basis, gen, prob, call, relax, other>>

SosSymPolyRepr(p) ==
    /\ basis.built
    /\ LET r == sos_sym_poly_repr(basis, p)
       IN  /\ basis' = [basis EXCEPT !.entries = r.entries]
           /\ ret' = [RetNone EXCEPT !.op = "sos_sym_poly_repr", !.poly = p,
                                     !.out = "ok", !.Qp = r.Qp]
    /\ UNCHANGED <<gen, prob, call, relax, other>>

ToSym(syms) ==
    /\ basis.built
    /\ ret' = IF basis.nvars # Len(syms)
              THEN [RetNone EXCEPT !.op = "to_sym", !.poly = ret.poly,
                                   !.out = "ValueError: size"]
              ELSE [RetNone EXCEPT !.op = "to_sym", !.poly = ret.poly,
                                   !.out = "ok", !.sym = to_sym(basis, syms)]
    /\ UNCHANGED <<basis, gen, prob, call, relax, other>>

NextBasis ==
    \/ \E nvars \in 0..Len(Symbols), deg \in 0..MaxDeg, hom \in BOOLEAN :
          BasisFromDegree(nvars, deg, hom)
    \/ \E nvars \in 1..Len(Symbols), deg \in 0..MaxDeg, hom \in BOOLEAN :
          \E drop \in SUBSET (1..Binom(nvars + deg, deg)) :
              BasisFiltered(nvars, deg, hom, drop)
    \/ \E p \in CallPolys : CheckCanRepresent(p)
    \/ \E p \in CallPolys : SosSymPolyRepr(p)
    \/ \E k \in 0..Len(Symbols) : ToSym(SubSeq(Symbols, 1, k))

SpecBasis == Init /\ [][NextBasis]_vars

-----------------------------------------------------------------------------
(* Bounds of the SOSProblem model *)

MaxExprDeg == 2      \* polynomials handed to a problem have degree <= MaxExprDeg
MaxCalls == 2        \* add_sos_constraint calls made on one problem

\* the symbols of an expression that are not polynomial variables
FreeSymbols == {"gamma"}

-----------------------------------------------------------------------------
(* SoS.py: class SOSProblem.  A solver variable is its position in the list *)
(* of variables created so far; a picos expression coef * var is the record *)
(* [coef, var], var = 0 for a constant.                                     *)

RECURSIVE IsPow2(_)
IsPow2(n) == n = 1 \/ (n % 2 = 0 /\ IsPow2(n \div 2))

\* float(expr) of an exact rational: the nearest double, which is the
\* rational itself only when its denominator is a power of two
float(r) == [num |-> r[1], den |-> r[2], exact |-> IsPow2(r[2])]

PicZero == [coef |-> float(<<0, 1>>), var |-> 0]

\* name or f'_Q{count}'
NameOr(name, prefix, count) ==
    IF name # "" THEN [text |-> name, num |-> 0]
    ELSE [text |-> prefix, num |-> count]

\* SOSProblem.__init__
SOSProblem ==
    [made |-> TRUE, sym_var_map |-> <<>>, created |-> <<>>,
     constraints |-> <<>>, sos_const_count |-> 0, aux_var_count |-> 0,
     pexpect_count |-> 0, pexpect |-> HandleNone]

\* self._sym_var_map[sym], 0 when sym is not in the cache
VarOf(P, sym) ==
    IF \E k \in 1..Len(P.sym_var_map) : P.sym_var_map[k].sym = sym
    THEN (P.sym_var_map[CHOOSE k \in 1..Len(P.sym_var_map) :
                            P.sym_var_map[k].sym = sym]).var
    ELSE 0

\* faulty variant: no membership test, every lookup creates a variable and
\* stores it under the symbol
sym_to_var_always(P, sym) ==
    LET v  == Len(P.created) + 1
        P1 == [P EXCEPT !.created = Append(@, [name |-> [text |-> sym, num |-> 0],
                                               kind |-> "real", size |-> 1])]
    IN  IF VarOf(P, sym) = 0
        THEN [P1 EXCEPT !.sym_var_map = Append(@, [sym |-> sym, var |-> v])]
        ELSE [P1 EXCEPT !.sym_var_map =
                 [k \in 1..Len(P.sym_var_map) |->
                     IF P.sym_var_map[k].sym = sym
                     THEN [sym |-> sym, var |-> v] ELSE P.sym_var_map[k]]]

\* SOSProblem.sym_to_var: the problem after the lookup
sym_to_var(P, sym) ==
    IF VarOf(P, sym) # 0 THEN P
    ELSE [P EXCEPT
            !.created = Append(@, [name |-> [text |-> sym, num |-> 0],
                                   kind |-> "real", size |-> 1]),
            !.sym_var_map = Append(@, [sym |-> sym, var |-> Len(P.created) + 1])]

\* SOSProblem.sp_to_picos on a coefficient k*s (k a number, s a symbol or "")
sp_to_picos(P, c) ==
    IF c.s = "" THEN [prob |-> P, expr |-> [coef |-> float(<<c.k, 1>>), var |-> 0]]
    ELSE LET P1 == sym_to_var(P, c.s)
         IN  [prob |-> P1,
              expr |-> [coef |-> float(<<c.k, 1>>), var |-> VarOf(P1, c.s)]]

\* map(self.sp_to_picos, poly.coeffs()), consumed in order
RECURSIVE map_sp_to_picos(_, _, _)
map_sp_to_picos(P, p, k) ==
    IF k > Len(p) THEN [prob |-> P, exprs |-> <<>>]
    ELSE LET r    == sp_to_picos(P, p[k].c)
             rest == map_sp_to_picos(r.prob, p, k + 1)
         IN  [prob |-> rest.prob, exprs |-> <<r.expr>> \o rest.exprs]

\* mono_to_coeffs.get(mono, 0)
mono_to_coeffs_get(p, exprs, mono) ==
    IF \E k \in 1..Len(p) : p[k].m = mono
    THEN exprs[CHOOSE k \in 1..Len(p) : p[k].m = mono]
    ELSE PicZero

\* Basis.from_degree
from_degree(nvars, deg, hom) == NewBasis(from_degree_run(nvars, deg, hom).out)

\* faulty variant: the full basis is always the homogeneous one
from_poly_lex_hom(p) ==
    from_degree(Len(p[1].m), (total_degree(p) + 1) \div 2, TRUE)

\* Basis.from_poly_lex(poly, sparse=False)
from_poly_lex(p) ==
    LET poly_deg == total_degree(p)
    IN  from_degree(Len(p[1].m), (poly_deg + 1) \div 2, is_hom(p, poly_deg))

\* the equalities of add_sos_constraint, one per item of sos_sym_entries
SosEqualities(B, Q, p, exprs) ==
    [k \in 1..Len(B.entries) |->
        [kind |-> "eq", var |-> Q, pairs |-> B.entries[k].pairs,
         rhs |-> mono_to_coeffs_get(p, exprs, B.entries[k].key)]]

\* faulty variant: the coefficients are converted before the degree is checked
add_sos_constraint_late_assert(P, p, name) ==
    LET P1   == [P EXCEPT !.sos_const_count = @ + 1]
        nm   == NameOr(name, "_Q", P1.sos_const_count)
        conv == map_sp_to_picos(P1, p, 1)
    IN  IF total_degree(p) % 2 # 0
        THEN [prob |-> conv.prob, out |-> "AssertionError", var |-> 0,
              basis |-> BasisNone]
        ELSE LET B  == from_poly_lex(p)
                 P2 == [conv.prob EXCEPT !.created =
                           Append(@, [name |-> nm, kind |-> "symmetric",
                                      size |-> Len(B.monoms)])]
                 Q  == Len(P2.created)
             IN  [prob |-> [P2 EXCEPT !.constraints =
                               @ \o SosEqualities(B, Q, p, conv.exprs)
                                 \o << [kind |-> "psd", var |-> Q,
                                        pairs |-> <<>>, rhs |-> PicZero] >>],
                  out |-> "ok", var |-> Q, basis |-> B]

\* SOSProblem.add_sos_constraint(expr, variables, name, sparse=False): the
\* problem after the call, the outcome, Q and the basis of the handle
add_sos_constraint(P, p, name) ==
    LET P1 == [P EXCEPT !.sos_const_count = @ + 1]
        nm == NameOr(name, "_Q", P1.sos_const_count)
    IN  IF total_degree(p) % 2 # 0
        THEN [prob |-> P1, out |-> "AssertionError", var |-> 0,
              basis |-> BasisNone]
        ELSE LET conv == map_sp_to_picos(P1, p, 1)
                 B    == from_poly_lex(p)
                 P2   == [conv.prob EXCEPT !.created =
                             Append(@, [name |-> nm, kind |-> "symmetric",
                                        size |-> Len(B.monoms)])]
                 Q    == Len(P2.created)
             IN  [prob |-> [P2 EXCEPT !.constraints =
                               @ \o SosEqualities(B, Q, p, conv.exprs)
                                 \o << [kind |-> "psd", var |-> Q,
                                        pairs |-> <<>>, rhs |-> PicZero] >>],
                  out |-> "ok", var |-> Q, basis |-> B]

\* X[ip, jp] == X[i, j] along the pairs of every monomial with several pairs
RECURSIVE MomentChains(_, _, _)
MomentChains(ents, X, k) ==
    IF k > Len(ents) THEN <<>>
    ELSE [q \in 1..(Len(ents[k].pairs) - 1) |->
             [kind |-> "eq_entries", var |-> X,
              pairs |-> <<ents[k].pairs[q], ents[k].pairs[q + 1]>>,
              rhs |-> PicZero]]
         \o MomentChains(ents, X, k + 1)

\* SOSProblem.get_pexpect: registers X and its constraints, returns pexpect
get_pexpect(P, nvars, deg, hom, name) ==
    LET P1 == [P EXCEPT !.pexpect_count = @ + 1]
        nm == NameOr(name, "_X", P1.pexpect_count)
        B  == from_degree(nvars, deg \div 2, FALSE)
        P2 == [P1 EXCEPT !.created =
                  Append(@, [name |-> nm, kind |-> "symmetric",
                             size |-> Len(B.monoms)])]
        X  == Len(P2.created)
    IN  [P2 EXCEPT
            !.constraints = @ \o MomentChains(B.entries, X, 1)
                              \o << [kind |-> "psd", var |-> X,
                                     pairs |-> <<>>, rhs |-> PicZero] >>,
            !.pexpect = [made |-> TRUE, basis |-> B, X |-> X, deg |-> deg,
                         hom |-> hom]]

\* the closure pexpect(p): the error raised, or the coefficient of every
\* X[i, j] in sp_mat_to_picos(basis.sos_sym_poly_repr(poly)) | X
pexpect(H, p) ==
    LET chk == check_can_represent(H.basis, p)
    IN  IF chk # "ok" THEN [basis |-> H.basis, out |-> chk, expr |-> <<>>]
        ELSE LET r == sos_sym_poly_repr(H.basis, p)
             IN  [basis |-> [H.basis EXCEPT !.entries = r.entries],
                  out   |-> "ok",
                  expr  |-> [pr \in DOMAIN r.Qp |-> float(r.Qp[pr])]]

-----------------------------------------------------------------------------
(* One SOSProblem and the calls made on it.  The polynomial arguments of   *)
(* the calls are one polynomial in the variables Symbols; add_sos_constraint *)
(* gets it with its last coefficient multiplied by a free symbol, or as is. *)
(* The problem is asked for one pseudoexpectation operator.                 *)

\* the expression p with the symbol s in its last coefficient
WithParam(p, s) ==
    [k \in 1..Len(p) |->
        [m |-> p[k].m, c |-> [k |-> p[k].c, s |-> IF k = Len(p) THEN s ELSE ""]]]

ProbPolys ==
    IF call.poly = <<>> THEN Polys(Len(Symbols), MaxExprDeg) ELSE {call.poly}

NewProblem ==
    /\ ~prob.made
    /\ prob' = SOSProblem
    /\ call' = [CallNone EXCEPT !.op = "SOSProblem", !.out = "ok"]
    /\ UNCHANGED <<gen, basis, ret, relax, other>>

SymToVar(sym) ==
    /\ prob.made
    /\ prob' = sym_to_var(prob, sym)
    /\ call' = [CallNone EXCEPT !.op = "sym_to_var", !.poly = call.poly,
                                !.param = sym, !.out = "ok",
                                !.var = VarOf(prob', sym)]
    /\ UNCHANGED <<gen, basis, ret, relax, other>>

AddSosConstraint(p, s) ==
    /\ prob.made
    /\ prob.sos_const_count < MaxCalls
    /\ LET r == add_sos_constraint(prob, WithParam(p, s), "")
       IN  /\ prob' = r.prob
           /\ call' = [op |-> "add_sos_constraint", poly |-> p, param |-> s,
                       out |-> r.out, expr |-> <<>>,
                       first |-> Len(prob.constraints) + 1, var |-> r.var,
                       basis |-> r.basis]
    /\ UNCHANGED <<gen, basis, ret, relax, other>>

GetPexpect(deg, hom) ==
    /\ prob.made
    /\ ~prob.pexpect.made
    /\ prob' = get_pexpect(prob, Len(Symbols), deg, hom, "")
    /\ call' = [CallNone EXCEPT !.op = "get_pexpect", !.poly = call.poly,
                                !.out = "ok",
                                !.first = Len(prob.constraints) + 1,
                                !.var = prob'.pexpect.X,
                                !.basis = prob'.pexpect.basis]
    /\ UNCHANGED <<gen, basis, ret, relax, other>>

Pexpect(p) ==
    /\ prob.made
    /\ prob.pexpect.made
    /\ LET r == pexpect(prob.pexpect, p)
       IN  /\ prob' = [prob EXCEPT !.pexpect.basis = r.basis]
           /\ call' = [CallNone EXCEPT !.op = "pexpect", !.poly = p,
                                       !.out = r.out, !.expr = r.expr,
                                       !.var = prob.pexpect.X,
                                       !.basis = r.basis]
    /\ UNCHANGED <<gen, basis, ret, relax, other>>

\* constraint construction on one problem
Next ==
    \/ NewProblem
    \/ \E sym \in FreeSymbols : SymToVar(sym)
    \/ \E p \in ProbPolys, s \in FreeSymbols \cup {""} : AddSosConstraint(p, s)
    \/ \E deg \in 0..MaxExprDeg, hom \in BOOLEAN : GetPexpect(deg, hom)

Spec == Init /\ [][Next]_vars

\* pseudoexpectation operators of one problem and their applications
NextPexpect ==
    \/ NewProblem
    \/ \E deg \in 0..MaxExprDeg, hom \in BOOLEAN : GetPexpect(deg, hom)
    \/ \E p \in ProbPolys : Pexpect(p)

SpecPexpect == Init /\ [][NextPexpect]_vars

-----------------------------------------------------------------------------
(* The symbol-to-variable cache: two SOSProblem instances and the calls    *)
(* that reach sym_to_var.  The expressions are in the variable x alone and *)
(* of total degree at most 2 (at most 1 as a matrix entry), with one of two *)
(* free symbols; the first instance gets one SOS constraint.                *)

CacheSymbols == {"gamma", "t"}

\* an argument of __getitem__ that is not a sympy Symbol
NotASymbol == "gamma*t"

\* SOSProblem.__getitem__
getitem(P, key) ==
    IF key \notin CacheSymbols
    THEN [prob |-> P, out |-> "AssertionError", var |-> 0]
    ELSE LET P1 == sym_to_var(P, key)
         IN  [prob |-> P1, out |-> "ok", var |-> VarOf(P1, key)]

\* SOSProblem.add_matrix_sos_constraint on the matrix with one row, cols
\* columns and every entry the expression e: p = y @ mat @ y.T = y0**2 * e,
\* a polynomial in the auxiliary variable y0 (first in the order) and x, y
add_matrix_sos_constraint(P, e, cols, name) ==
    IF cols # 1
    THEN [prob |-> P, out |-> "AssertionError", var |-> 0, basis |-> BasisNone]
    ELSE LET P1 == [P EXCEPT !.aux_var_count = @ + 1]
             p  == [k \in 1..Len(e) |-> [m |-> <<2>> \o e[k].m, c |-> e[k].c]]
         IN  add_sos_constraint(P1, p, name)

\* the closure pexpect(p) on an expression whose last coefficient holds the
\* symbol s: the problem after sp_mat_to_picos has converted the entries of
\* basis.sos_sym_poly_repr(poly), those of the last monomial hold s
pexpect_sp_mat_to_picos(P, p, s) ==
    IF check_can_represent(P.pexpect.basis, p) # "ok" THEN P
    ELSE LET B    == P.pexpect.basis
             idx  == KeyIndex(B.entries, p[Len(p)].m)
         IN  IF s # "" /\ idx # 0 /\ B.entries[idx].pairs # <<>>
             THEN sym_to_var(P, s)
             ELSE P

CachePolys ==
    IF call.poly = <<>>
    THEN {p \in Polys(Len(Symbols), MaxExprDeg) :
            /\ total_degree(p) <= 2
            /\ \A k \in 1..Len(p) : p[k].m[2] = 0}
    ELSE {call.poly}

NewOther ==
    /\ ~other.made
    /\ other' = SOSProblem
    /\ UNCHANGED <<gen, basis, ret, prob, call, relax>>

OtherSymToVar(sym) ==
    /\ other.made
    /\ other' = sym_to_var(other, sym)
    /\ UNCHANGED <<gen, basis, ret, prob, call, relax>>

GetItem(key) ==
    /\ prob.made
    /\ LET r == getitem(prob, key)
       IN  /\ prob' = r.prob
           /\ call' = [CallNone EXCEPT !.op = "__getitem__", !.poly = call.poly,
                                       !.param = key, !.out = r.out,
                                       !.var = r.var]
    /\ UNCHANGED <<gen, basis, ret, relax, other>>

SpToPicos(c) ==
    /\ prob.made
    /\ LET r == sp_to_picos(prob, c)
       IN  /\ prob' = r.prob
           /\ call' = [CallNone EXCEPT !.op = "sp_to_picos", !.poly = call.poly,
                                       !.param = c.s, !.out = "ok",
                                       !.var = r.expr.var]
    /\ UNCHANGED <<gen, basis, ret, relax, other>>

AddMatrixSosConstraint(p, s, cols) ==
    /\ prob.made
    /\ prob.sos_const_count < MaxCalls
    /\ LET r == add_matrix_sos_constraint(prob, WithParam(p, s), cols, "")
       IN  /\ prob' = r.prob
           /\ call' = [op |-> "add_matrix_sos_constraint", poly |-> p,
                       param |-> s, out |-> r.out, expr |-> <<>>,
                       first |-> Len(prob.constraints) + 1, var |-> r.var,
                       basis |-> r.basis]
    /\ UNCHANGED <<gen, basis, ret, relax, other>>

PexpectExpr(p, s) ==
    /\ prob.made
    /\ prob.pexpect.made
    /\ prob' = pexpect_sp_mat_to_picos(prob, p, s)
    /\ call' = [CallNone EXCEPT !.op = "pexpect", !.poly = p, !.param = s,
                                !.out = check_can_represent(prob.pexpect.basis, p),
                                !.var = VarOf(prob', s)]
    /\ UNCHANGED <<gen, basis, ret, relax, other>>

NextCache ==
    \/ NewProblem
    \/ NewOther
    \/ \E sym \in CacheSymbols : OtherSymToVar(sym)
    \/ \E sym \in CacheSymbols : SymToVar(sym)
    \/ \E key \in CacheSymbols \cup {NotASymbol} : GetItem(key)
    \/ \E k \in {1, 3}, s \in CacheSymbols \cup {""} : SpToPicos([k |-> k, s |-> s])
    \/ \E p \in CachePolys, s \in CacheSymbols \cup {""} :
          prob.sos_const_count = 0 /\ AddSosConstraint(p, s)
    \/ \E p \in CachePolys, s \in CacheSymbols \cup {""}, cols \in 1..2 :
          /\ prob.sos_const_count = 0
          /\ total_degree(p) <= 1
          /\ AddMatrixSosConstraint(p, s, cols)
    \/ GetPexpect(MaxExprDeg, FALSE)
    \/ \E p \in CachePolys, s \in CacheSymbols \cup {""} : PexpectExpr(p, s)

SpecCache == Init /\ [][NextCache]_vars

-----------------------------------------------------------------------------
(* Bounds of the relaxation-builder model *)

MaxIneqs == 2        \* inequality constraints handed to a builder
MaxEqs == 1          \* equality constraints handed to a builder
MaxConDeg == 2       \* total degree of the objective and of a constraint
MaxRelaxDeg == 2     \* the deg argument; 0 stands for deg=None

-----------------------------------------------------------------------------
(* SoS.py: poly_opt_prob, poly_cert_prob.  A constraint polynomial is its   *)
(* total degree; the certificate f is the sequence of its terms, each a     *)
(* multiplier (its name and degree) times the constraints at the positions  *)
(* in factors; sos lists the add_sos_constraint calls on multipliers.       *)

SeqsUpTo(S, n) == UNION {[1..k -> S] : k \in 0..n}

\* the working degree: deg when supplied, else the smallest even integer
\* not less than the greatest total degree
get_poly_degree(degs, deg) ==
    IF deg # 0 THEN deg
    ELSE LET mx == MaxOf({degs[k] : k \in 1..Len(degs)})
         IN  IF mx % 2 = 0 THEN mx ELSE mx + 1

\* itertools.combinations(range(n), r): the increasing r-tuples over 0..n-1
\* in lexicographic order
RECURSIVE SortLex(_)
SortLex(S) ==
    IF S = {} THEN <<>>
    ELSE LET least == CHOOSE a \in S : \A b \in S \ {a} : LexGreater(b, a)
         IN  <<least>> \o SortLex(S \ {least})

combinations(n, r) ==
    SortLex({c \in [1..r -> 0..(n - 1)] :
                \A k \in 1..(r - 1) : c[k] < c[k + 1]})

\* for r in range(n): for comb in combinations(ineqs, r)
RECURSIVE AllCombs(_, _)
AllCombs(n, r) ==
    IF r >= n THEN <<>> ELSE combinations(n, r) \o AllCombs(n, r + 1)

\* sum of the total degrees of the constraints at the positions in comb
TotalDeg(ineqs, comb) == SumSeq([k \in 1..Len(comb) |-> ineqs[comb[k] + 1]])

\* p = poly_variable(f'c{i}', vars, 2*deg - poly_degree(eq, vars)); f += p*eq
EqTerms(eqs, deg) ==
    [k \in 1..Len(eqs) |->
        [kind |-> "eq", mult |-> [text |-> "c", num |-> k - 1],
         mdeg |-> 2 * deg - eqs[k], factors |-> <<k - 1>>]]

\* s = poly_variable(f'd{i}', vars, (2*deg - poly_degree(ineq, vars))//2*2)
\* f += s * ineq
IneqTerms(ineqs, deg) ==
    [k \in 1..Len(ineqs) |->
        [kind |-> "ineq", mult |-> [text |-> "d", num |-> k - 1],
         mdeg |-> ((2 * deg - ineqs[k]) \div 2) * 2, factors |-> <<k - 1>>]]

\* the combinations with total_deg <= 2*deg, each with its multiplier
\* s = poly_variable(f'e{i}', vars, (2*deg - total_deg)//2*2); f += s*prod(comb)
ProdTerms(ineqs, deg) ==
    LET kept == SelectSeq(AllCombs(Len(ineqs), 0),
                          LAMBDA comb : TotalDeg(ineqs, comb) <= 2 * deg)
    IN  [k \in 1..Len(kept) |->
            [kind |-> "prod", mult |-> [text |-> "e", num |-> k - 1],
             mdeg |-> ((2 * deg - TotalDeg(ineqs, kept[k])) \div 2) * 2,
             factors |-> kept[k]]]

\* prob.add_sos_constraint(s, vars, name=...) for the multipliers in terms;
\* shift is the distance of the constraint's number from the multiplier's
SosOf(terms, shift) ==
    [k \in 1..Len(terms) |->
        [name |-> [text |-> terms[k].mult.text, num |-> terms[k].mult.num + shift],
         of   |-> terms[k].mult,
         deg  |-> terms[k].mdeg]]

\* poly_variable on a negative degree makes Basis([]), whose max() raises
Outcome(terms) ==
    IF \E k \in 1..Len(terms) : terms[k].mdeg < 0 THEN "ValueError" ELSE "ok"

\* what a builder returns: the call and the problem it formulated
Built(op, obj, eqs, ineqs, ineq_prods, deg, terms, sos) ==
    [op |-> op, obj |-> obj, eqs |-> eqs, ineqs |-> ineqs,
     ineq_prods |-> ineq_prods, deg |-> deg, out |-> Outcome(terms),
     terms |-> IF Outcome(terms) = "ok" THEN terms ELSE <<>>,
     sos   |-> IF Outcome(terms) = "ok" THEN sos ELSE <<>>]

poly_opt_prob(obj, eqs, ineqs, ineq_prods, deg0) ==
    LET deg == get_poly_degree(<<obj>> \o eqs \o ineqs, deg0)
        d   == IneqTerms(ineqs, deg)
        e   == IF ineq_prods THEN ProdTerms(ineqs, deg) ELSE <<>>
    IN  Built("poly_opt_prob", obj, eqs, ineqs, ineq_prods, deg,
              EqTerms(eqs, deg) \o d \o e, SosOf(d, 0) \o SosOf(e, 1))

poly_cert_prob(poly, eqs, ineqs, ineq_prods, deg0) ==
    LET deg == get_poly_degree(<<poly>> \o eqs \o ineqs, deg0)
        s   == IF ineq_prods THEN ProdTerms(ineqs, deg)
               ELSE IneqTerms(ineqs, deg)
    IN  Built("poly_cert_prob", poly, eqs, ineqs, ineq_prods, deg,
              EqTerms(eqs, deg) \o s, SosOf(s, 0))

PolyOptProb(obj, eqs, ineqs, ineq_prods, deg) ==
    /\ relax' = poly_opt_prob(obj, eqs, ineqs, ineq_prods, deg)
    /\ UNCHANGED <<gen, basis, ret, prob, call, other>>

PolyCertProb(poly, eqs, ineqs, ineq_prods, deg) ==
    /\ relax' = poly_cert_prob(poly, eqs, ineqs, ineq_prods, deg)
    /\ UNCHANGED <<gen, basis, ret, prob, call, other>>

NextRelax ==
    \/ \E obj \in 1..MaxConDeg, eqs \in SeqsUpTo(1..MaxConDeg, MaxEqs),
          ineqs \in SeqsUpTo(1..MaxConDeg, MaxIneqs), ineq_prods \in BOOLEAN,
          deg \in 0..MaxRelaxDeg :
          PolyOptProb(obj, eqs, ineqs, ineq_prods, deg)
    \/ \E poly \in 1..MaxConDeg, eqs \in SeqsUpTo(1..MaxConDeg, MaxEqs),
          ineqs \in SeqsUpTo(1..MaxConDeg, MaxIneqs), ineq_prods \in BOOLEAN,
          deg \in 0..MaxRelaxDeg :
          PolyCertProb(poly, eqs, ineqs, ineq_prods, deg)

SpecRelax == Init /\ [][NextRelax]_vars

-----------------------------------------------------------------------------
(* Claims on the generators *)

\* the number of tuples the spec gives for the run in progress
C1_Count ==
    IF gen.fn = "basis_hom" THEN Binom(gen.n + gen.d - 1, gen.d)
    ELSE Binom(gen.n + gen.d, gen.d)

\* C1: for all n >= 0 and d >= 0, basis_hom(n, d) terminates and yields
\* exactly C(n+d-1, d) tuples, and basis_inhom(n, d) terminates and yields
\* exactly C(n+d, d) tuples: a run never raises, never yields more than the
\* count, and has yielded exactly the count when it is done.
C1_CountsAllN ==
    gen.fn # "none" =>
        /\ gen.status # "RecursionError"
        /\ Len(gen.out) <= C1_Count
        /\ (gen.status = "done" => Len(gen.out) = C1_Count)

\* Every length-n tuple over 0..d whose entries sum to d
C2_AllTuples(n, d) == {t \in [1..n -> 0..d] : SumSeq(t) = d}

\* a comes before b: at the last coordinate where they differ, a is greater
C2_Before(a, b) ==
    \E k \in 1..Len(a) :
        /\ a[k] > b[k]
        /\ \A j \in (k + 1)..Len(a) : a[j] = b[j]

\* basis_hom(n-1, di) for di = from..d, each tuple extended by d - di
RECURSIVE C2_Blocks(_, _, _)
C2_Blocks(n, d, from) ==
    IF from > d THEN <<>>
    ELSE LET sub == basis_hom(n - 1, from).out
         IN  [k \in 1..Len(sub) |-> Append(sub[k], d - from)]
                 \o C2_Blocks(n, d, from + 1)

\* C2: for n >= 1 and d >= 0, basis_hom(n, d) yields every length-n tuple of
\* nonnegative integers summing to d exactly once, in the order di = 0..d
\* ascending of basis_hom(n-1, di) extended by the last coordinate d - di
\* (n = 1 yields (d,)); basis_hom(2, 2) is [(0,2), (1,1), (2,0)].
C2_HomEnumeration ==
    (gen.fn = "basis_hom" /\ gen.n >= 1) =>
        /\ gen.status # "RecursionError"
        /\ \A k \in 1..Len(gen.out) : gen.out[k] \in C2_AllTuples(gen.n, gen.d)
        /\ \A k \in 1..(Len(gen.out) - 1) : C2_Before(gen.out[k], gen.out[k + 1])
        /\ gen.status = "done" =>
              /\ {gen.out[k] : k \in 1..Len(gen.out)} = C2_AllTuples(gen.n, gen.d)
              /\ Len(gen.out) = Cardinality(C2_AllTuples(gen.n, gen.d))
              /\ gen.n = 1 => gen.out = << <<gen.d>> >>
              /\ gen.n >= 2 => gen.out = C2_Blocks(gen.n, gen.d, 0)
              /\ (gen.n = 2 /\ gen.d = 2) =>
                    gen.out = << <<0, 2>>, <<1, 1>>, <<2, 0>> >>

C2_Witness ==
    /\ gen.fn = "basis_hom"
    /\ gen.status = "done"
    /\ gen.n = 3
    /\ gen.d = 2
    /\ Len(gen.out) = 6

-----------------------------------------------------------------------------
(* Claims on the Basis object *)

\* the elementwise sum of the basis monomials at positions i and j (from 0)
PairSum(i, j) ==
    [k \in 1..basis.nvars |-> basis.monoms[i + 1][k] + basis.monoms[j + 1][k]]

IndexPairs == (0..(Len(basis.monoms) - 1)) \X (0..(Len(basis.monoms) - 1))

\* where the pair pr occurs in the dict: <<entry, position in its list>>
Occurrences(pr) ==
    {w \in UNION {{<<a, q>> : q \in 1..Len(basis.entries[a].pairs)} :
                     a \in 1..Len(basis.entries)} :
        basis.entries[w[1]].pairs[w[2]] = pr}

\* C3: for every Basis built by Basis.from_degree (here: for every Basis,
\* full or filtered, at any time after its construction), sos_sym_entries
\* is a partition of {0..n-1} x {0..n-1}: every ordered pair (i, j) is in
\* exactly one entry list, exactly once, in the list keyed by m exactly when
\* monoms[i] + monoms[j] = m; so (i, j) and (j, i) are in the same list.
C3_Partition ==
    basis.built =>
        /\ \A a, b \in 1..Len(basis.entries) :
              basis.entries[a].key = basis.entries[b].key => a = b
        /\ \A a \in 1..Len(basis.entries) :
              \A q \in 1..Len(basis.entries[a].pairs) :
                  basis.entries[a].pairs[q] \in IndexPairs
        /\ \A pr \in IndexPairs :
              /\ Cardinality(Occurrences(pr)) = 1
              /\ \A w \in Occurrences(pr) :
                    basis.entries[w[1]].key = PairSum(pr[1], pr[2])
              /\ \A w \in Occurrences(pr) :
                    \E q \in 1..Len(basis.entries[w[1]].pairs) :
                        basis.entries[w[1]].pairs[q] = <<pr[2], pr[1]>>

C3_Witness ==
    /\ ret.op = "from_degree"
    /\ basis.built
    /\ Len(basis.monoms) = 6
    /\ \E a \in 1..Len(basis.entries) : Len(basis.entries[a].pairs) = 3

\* the monomials that are the sum of two basis monomials
PairSums == {PairSum(pr[1], pr[2]) : pr \in IndexPairs}

RECURSIVE RatSumOver(_, _)
RatSumOver(S, Q) ==
    IF S = {} THEN <<0, 1>>
    ELSE LET pr == CHOOSE x \in S : TRUE
         IN  RatAdd(Q[pr], RatSumOver(S \ {pr}, Q))

\* the coefficient of m in b^T Qp b
GramCoeff(Q, m) ==
    RatSumOver({pr \in IndexPairs : PairSum(pr[1], pr[2]) = m}, Q)

\* C4: for any basis B and polynomial p whose monomials are all keys of B's
\* partition, sos_sym_poly_repr(p) is a symmetric matrix Qp such that for
\* every monomial m the sum of Qp[i,j] over the pairs mapped to m is the
\* coefficient of m in p (0 when m is not in p): b^T Qp b expands to p.
C4_RoundTrip ==
    [][(/\ ret'.op = "sos_sym_poly_repr"
        /\ PolyMonoms(ret'.poly) \subseteq Keys(basis.entries)) =>
          /\ DOMAIN ret'.Qp = IndexPairs
          /\ \A pr \in IndexPairs : ret'.Qp[pr] = ret'.Qp[<<pr[2], pr[1]>>]
          /\ \A m \in Keys(basis.entries) \cup PairSums :
                GramCoeff(ret'.Qp, m) = <<PolyCoeff(ret'.poly, m), 1>>]_vars

\* C9: a Basis is immutable after construction: a call of
\* check_can_represent, sos_sym_poly_repr or to_sym, with any polynomial,
\* leaves monoms, deg, is_hom and the partition as they were, so the outcome
\* of check_can_represent is the one the freshly constructed basis gives.
C9_Immutable ==
    [][(ret'.op \in {"check_can_represent", "sos_sym_poly_repr", "to_sym"}) =>
          /\ basis' = basis
          /\ ret'.op = "check_can_represent" =>
                ret'.out = check_can_represent(NewBasis(basis.monoms), ret'.poly)]_vars

-----------------------------------------------------------------------------
(* Claims on the SOSProblem *)

\* the polynomials of even total degree
EvenPolys == {q \in Polys(Len(Symbols), MaxExprDeg) : total_degree(q) % 2 = 0}

\* C5: add_sos_constraint on a polynomial of odd total degree fails with the
\* degree-parity error before any solver variable is created: the call
\* leaves the symbol-to-variable cache, the created variables and the
\* registered constraints as they were, and afterwards add_sos_constraint
\* on any polynomial of even degree succeeds and only adds constraints.
C5_OddDegreeFails ==
    [][(call'.op = "add_sos_constraint" /\ total_degree(call'.poly) % 2 = 1) =>
          /\ call'.out = "AssertionError"
          /\ prob'.sym_var_map = prob.sym_var_map
          /\ prob'.created = prob.created
          /\ prob'.constraints = prob.constraints
          /\ \A q \in EvenPolys, s \in FreeSymbols \cup {""} :
                LET r == add_sos_constraint(prob', WithParam(q, s), "")
                IN  /\ r.out = "ok"
                    /\ Len(r.prob.constraints) > Len(prob.constraints)
                    /\ SubSeq(r.prob.constraints, 1, Len(prob.constraints))
                          = prob.constraints]_vars

C5_Witness ==
    /\ call.op = "add_sos_constraint"
    /\ call.out = "AssertionError"
    /\ call.param = "gamma"
    /\ Len(call.poly) = 2
    /\ VarOf(prob, "gamma") = 0
    /\ prob.constraints # <<>>
    /\ prob.created # <<>>

\* the index pairs of the basis B whose monomials sum to m
PairsFor(B, m) ==
    {pr \in (0..(Len(B.monoms) - 1)) \X (0..(Len(B.monoms) - 1)) :
        sum_tuple(B.monoms[pr[1] + 1], B.monoms[pr[2] + 1]) = m}

\* the right-hand side of the equality for m: the coefficient of m in the
\* expression of the last call, 0 when m is not one of its monomials
C8_Rhs(m) ==
    IF m \in PolyMonoms(call.poly)
    THEN [coef |-> [num |-> PolyCoeff(call.poly, m), den |-> 1, exact |-> TRUE],
          var  |-> IF call.param # "" /\ m = call.poly[Len(call.poly)].m
                   THEN VarOf(prob, call.param) ELSE 0]
    ELSE [coef |-> [num |-> 0, den |-> 1, exact |-> TRUE], var |-> 0]

\* C8: in dense mode, for a polynomial p of even total degree,
\* add_sos_constraint registers exactly one equality per key m of the basis's
\* partition, the sum of Q[i,j] over the pairs mapped to m = the coefficient
\* of m in p (0 if absent), followed by exactly one PSD constraint on Q; and
\* every monomial of p is a key, so the equalities encode p = b^T Q b.
C8_DenseEqualities ==
    (call.op = "add_sos_constraint" /\ total_degree(call.poly) % 2 = 0) =>
        LET B   == call.basis
            new == SubSeq(prob.constraints, call.first, Len(prob.constraints))
        IN  /\ call.out = "ok"
            /\ prob.created[call.var].kind = "symmetric"
            /\ prob.created[call.var].size = Len(B.monoms)
            /\ Len(new) = Len(B.entries) + 1
            /\ \A a, b \in 1..Len(B.entries) :
                  B.entries[a].key = B.entries[b].key => a = b
            /\ \A k \in 1..Len(B.entries) :
                  /\ new[k].kind = "eq"
                  /\ new[k].var = call.var
                  /\ {new[k].pairs[q] : q \in 1..Len(new[k].pairs)}
                        = PairsFor(B, B.entries[k].key)
                  /\ Len(new[k].pairs)
                        = Cardinality(PairsFor(B, B.entries[k].key))
                  /\ new[k].pairs # <<>>
                  /\ new[k].rhs = C8_Rhs(B.entries[k].key)
            /\ new[Len(new)].kind = "psd"
            /\ new[Len(new)].var = call.var
            /\ PolyMonoms(call.poly) \subseteq Keys(B.entries)
            /\ call.param # "" =>
                  /\ VarOf(prob, call.param) # 0
                  /\ prob.created[VarOf(prob, call.param)].kind = "real"

C8_Witness ==
    /\ call.op = "add_sos_constraint"
    /\ call.out = "ok"
    /\ call.param = "gamma"
    /\ Len(call.poly) = 2
    /\ ~is_hom(call.poly, 2)
    /\ Len(call.basis.monoms) = 3
    /\ Len(prob.constraints) - call.first = 6
    /\ call.first > 1

-----------------------------------------------------------------------------
(* Claims on the pseudoexpectation operator *)

\* C6: the operator returned by get_pexpect(variables, deg), applied to any
\* polynomial of total degree at most deg, returns an affine expression, not
\* an error: the sum over the monomials m of coeff(m) times the mean of
\* X[i,j] over the pairs mapped to m, so X[i,j] has the coefficient
\* coeff(m) / (number of pairs of m) for the m its pair sums to.
C6_PexpectAffine ==
    (call.op = "pexpect" /\ total_degree(call.poly) <= prob.pexpect.deg) =>
        LET B == prob.pexpect.basis
            n == Len(B.monoms)
        IN  /\ call.out = "ok"
            /\ DOMAIN call.expr = (0..(n - 1)) \X (0..(n - 1))
            /\ \A pr \in DOMAIN call.expr :
                  LET m == sum_tuple(B.monoms[pr[1] + 1], B.monoms[pr[2] + 1])
                  IN  <<call.expr[pr].num, call.expr[pr].den>>
                         = RatNorm(<<PolyCoeff(call.poly, m),
                                     Cardinality(PairsFor(B, m))>>)

\* C7: the operator returned by get_pexpect(variables, deg, hom=True)
\* accepts only homogeneous polynomials: applied to a polynomial that is not
\* homogeneous of degree deg it signals an error, it returns no expression.
C7_HomRejects ==
    (/\ call.op = "pexpect"
     /\ prob.pexpect.hom
     /\ ~is_hom(call.poly, prob.pexpect.deg)) => call.out # "ok"

-----------------------------------------------------------------------------
(* Claims on the relaxation builders *)

\* the sets of positions of ineqs of size 0 .. len(ineqs)-1 whose total
\* degree is at most 2*deg
C10_Subsets ==
    {S \in SUBSET (0..(Len(relax.ineqs) - 1)) :
        /\ Cardinality(S) < Len(relax.ineqs)
        /\ SumSeq([k \in 1..Len(relax.ineqs) |->
                      IF (k - 1) \in S THEN relax.ineqs[k] ELSE 0])
              <= 2 * relax.deg}

\* C10: with ineq_prods=True both poly_cert_prob and poly_opt_prob use
\* subset multipliers instead of one multiplier per inequality: the
\* certificate has exactly one SOS-constrained multiplier for each subset of
\* ineqs of size 0 .. len(ineqs)-1 with total degree at most 2*deg, of degree
\* 2*deg - totaldeg rounded down to even, times the product of the subset,
\* and no other inequality multipliers.
C10_SubsetMultipliers ==
    (relax.op # "none" /\ relax.ineq_prods /\ relax.out = "ok") =>
        LET mults == SelectSeq(relax.terms, LAMBDA t : t.kind # "eq")
            setOf(t) == {t.factors[q] : q \in 1..Len(t.factors)}
        IN  /\ \A k \in 1..Len(mults) :
                  /\ mults[k].kind = "prod"
                  /\ Cardinality(setOf(mults[k])) = Len(mults[k].factors)
                  /\ setOf(mults[k]) \in C10_Subsets
                  /\ mults[k].mdeg % 2 = 0
                  /\ mults[k].mdeg <= 2 * relax.deg - TotalDeg(relax.ineqs, mults[k].factors)
                  /\ mults[k].mdeg + 2 > 2 * relax.deg - TotalDeg(relax.ineqs, mults[k].factors)
                  /\ \E j \in 1..Len(relax.sos) :
                        /\ relax.sos[j].of = mults[k].mult
                        /\ relax.sos[j].deg = mults[k].mdeg
            /\ \A S \in C10_Subsets :
                  Cardinality({k \in 1..Len(mults) : setOf(mults[k]) = S}) = 1
            /\ Len(relax.sos) = Len(mults)

-----------------------------------------------------------------------------
(* Claims on the symbol-to-variable cache *)

\* the cache of P holds a symbol at most once, each time with a real
\* variable of that name that P created
CacheWellFormed(P) ==
    /\ \A a, b \in 1..Len(P.sym_var_map) :
          P.sym_var_map[a].sym = P.sym_var_map[b].sym => a = b
    /\ \A a \in 1..Len(P.sym_var_map) :
          /\ P.sym_var_map[a].var \in 1..Len(P.created)
          /\ P.created[P.sym_var_map[a].var].kind = "real"
          /\ P.created[P.sym_var_map[a].var].name.text = P.sym_var_map[a].sym

\* from P to Q no cache entry is removed or replaced and no variable is lost
CacheKept(P, Q) ==
    /\ Len(Q.sym_var_map) >= Len(P.sym_var_map)
    /\ SubSeq(Q.sym_var_map, 1, Len(P.sym_var_map)) = P.sym_var_map
    /\ Len(Q.created) >= Len(P.created)
    /\ SubSeq(Q.created, 1, Len(P.created)) = P.created
    /\ \A sym \in CacheSymbols :
          VarOf(P, sym) # 0 => VarOf(Q, sym) = VarOf(P, sym)

\* C11: for one problem instance, after any sequence of sym_to_var,
\* __getitem__, sp_to_picos, add_sos_constraint, add_matrix_sos_constraint
\* and pexpect calls, each symbol maps to at most one solver variable: the
\* variable is created on the first reference to the symbol, every later
\* reference returns that same variable, no cache entry is ever removed or
\* replaced; and the caches of two problem instances are disjoint: each
\* holds only variables its own instance created, and a call on one instance
\* leaves the other as it was.
C11_CacheUnique ==
    [][/\ CacheWellFormed(prob')
       /\ CacheWellFormed(other')
       /\ CacheKept(prob, prob')
       /\ CacheKept(other, other')
       /\ prob' # prob => other' = other
       /\ other' # other => prob' = prob
       /\ \A sym \in CacheSymbols :
             (VarOf(prob, sym) = 0 /\ VarOf(prob', sym) # 0) =>
                /\ call'.param = sym
                /\ VarOf(prob', sym) > Len(prob.created)
       /\ (/\ prob' # prob \/ call' # call
           /\ call'.param \in CacheSymbols
           /\ call'.out = "ok") =>
             /\ VarOf(prob', call'.param) # 0
             /\ call'.op \in {"sym_to_var", "__getitem__", "sp_to_picos",
                              "pexpect"} =>
                   call'.var = VarOf(prob', call'.param)
             /\ VarOf(prob, call'.param) # 0 =>
                   /\ prob'.sym_var_map = prob.sym_var_map
                   /\ \A k \in (Len(prob.created) + 1)..Len(prob'.created) :
                         prob'.created[k].kind # "real"]_vars

C11_Witness ==
    /\ call.op = "add_sos_constraint"
    /\ call.out = "ok"
    /\ call.param = "gamma"
    /\ VarOf(prob, "gamma") = 1
    /\ VarOf(prob, "t") = 2
    /\ Len(prob.created) = 3
    /\ VarOf(other, "gamma") = 2
    /\ VarOf(other, "t") = 1

=============================================================================
